---- MODULE Spec2Model ----
(***************************************************************************)
(* Model of scripts/displaycal-eecolor-to-madvr-converter: the command     *)
(* loop (__main__), eecolor_to_madvr, eecolor_to_icc_devicelink and the    *)
(* SIGBREAK/SIGINT handler.                                                *)
(*                                                                         *)
(* Python floats are modelled as exact rationals <<num, den>> in lowest    *)
(* terms with den > 0.  Text tokens of the input file are decimal literals *)
(* [k, m, e] (mantissa m, e decimals), "#" comment markers or junk.        *)
(***************************************************************************)
EXTENDS Integers, Sequences, FiniteSets, TLC

VARIABLES
    argv,        \* sys.argv[1:]
    fs,          \* the input files: name -> sequence of lines (a line is a sequence of tokens)
    pc,          \* position of the main program
    i,           \* 1-based index of the argument the for loop is at
    fn,          \* the conversion function selected for the current argument
    result,      \* the variable result of __main__
    colorspace,  \* the variable colorspace of __main__
    hdr,         \* the variable hdr of __main__
    sigbreak,    \* sys._sigbreak
    eecolor_3dlut_data,  \* eecolor_3dlut_data, the rows read from the file
    clutres,     \* clutres
    link,        \* the ICCProfile being built (its A2B0 tag)
    icc_filename,  \* the file name icc_device_link_to_madvr is given, or "none"
    written,     \* device link files on disk: name -> link or NoFile
    luts,        \* madVR 3D LUT files on disk (names of the inputs they were made from)
    chunk,       \* chunks resampled so far by icc_device_link_to_madvr
    exc,         \* the exception being raised, or "none"
    exitStatus,  \* the status given to sys.exit, or -1 while running
    outcome,     \* history: argument index -> how its conversion ended
    sigAt,       \* history: the argument index at which the interrupt arrived
    calls        \* history: argument index -> the arguments fn was called with, or NoCall

vars == <<argv, fs, pc, i, fn, result, colorspace, hdr, sigbreak, eecolor_3dlut_data, clutres,
          link, icc_filename, written, luts, chunk, exc, exitStatus, outcome, sigAt, calls>>

----------------------------------------------------------------------------
(* Bounds of the model *)

MaxArgs == 3       \* longest command line
MaxRows == 9       \* most data rows of a freely chosen input file
MaxCols == 6       \* most columns of a row
MaxRes == 3        \* largest grid resolution of the tagged input files
NumChunks == 2     \* chunks of one resampling call

----------------------------------------------------------------------------
(* Numbers *)

Abs(x) == IF x < 0 THEN -x ELSE x

RECURSIVE GCD(_, _)
GCD(a, b) == IF b = 0 THEN a ELSE GCD(b, a % b)

\* The rational n/d (d # 0) in lowest terms with a positive denominator.
Rat(n, d) ==
    LET g == GCD(Abs(n), Abs(d))
        s == IF d < 0 THEN -1 ELSE 1
    IN  <<(s * n) \div g, (s * d) \div g>>

RatLess(a, b) == a[1] * b[2] < b[1] * a[2]

RECURSIVE Pow10(_)
Pow10(e) == IF e = 0 THEN 1 ELSE 10 * Pow10(e - 1)

Cube(n) == n * n * n

----------------------------------------------------------------------------
(* The text of an input file *)

Tok(m, e) == [k |-> "num", m |-> m, e |-> e]     \* the decimal literal m / 10^e
CommentTok == [k |-> "#", m |-> 0, e |-> 0]       \* a token starting with "#"
JunkTok == [k |-> "junk", m |-> 0, e |-> 0]       \* a token float() rejects

BlankLine == <<>>
CommentLine == <<CommentTok, Tok(1, 0)>>

\* line.strip() is empty, or line.startswith("#")
IsSkipped(line) == line = <<>> \/ line[1].k = "#"

\* float(v): the value of a decimal literal
ParseFloat(t) == Rat(t.m, Pow10(t.e))

CanParse(line) == \A c \in 1..Len(line) : line[c].k = "num"

KeepsLine(line) == ~IsSkipped(line)

\* Lines 39-42: the lines that are neither blank nor comments.
SelectLines(lines) == SelectSeq(lines, KeepsLine)

\* Lines 37-44: the rows of floats read from the file, or ValueError.
ReadRows(lines) ==
    LET rows == SelectLines(lines)
    IN  IF \E n \in 1..Len(rows) : ~CanParse(rows[n])
        THEN [err |-> "ValueError", val |-> <<>>]
        ELSE [err |-> "none",
              val |-> [n \in 1..Len(rows) |->
                          [c \in 1..Len(rows[n]) |-> ParseFloat(rows[n][c])]]]

----------------------------------------------------------------------------
(* eecolor_to_icc_devicelink: the grid *)

\* Line 46: int(round(count ** (1.0 / 3.0))), the integer nearest the cube root:
\* the N with (N - 1/2)^3 <= count < (N + 1/2)^3.
ClutResOf(count) ==
    CHOOSE N \in 0..count : Cube(2 * N - 1) <= 8 * count /\ 8 * count < Cube(2 * N + 1)

\* LoopG with R and G taken in the wrong order.
LoopG_Swapped(B, R, N) == [g \in 1..N |-> <<g - 1, R, B>>]

\* Lines 53-55: the innermost loop, for G in range(clutres), appends (R, G, B).
LoopG(B, R, N) == [g \in 1..N |-> <<R, g - 1, B>>]

\* Lines 52-55: for R in range(clutres), R counting up from r.
RECURSIVE LoopR(_, _, _)
LoopR(B, r, N) == IF r >= N THEN <<>> ELSE LoopG(B, r, N) \o LoopR(B, r + 1, N)

\* Lines 51-55: for B in range(clutres), B counting up from b: the (R, G, B)
\* index triples in the order in which n visits them.
RECURSIVE LoopB(_, _)
LoopB(b, N) == IF b >= N THEN <<>> ELSE LoopR(b, 0, N) \o LoopB(b + 1, N)

\* row[:3] = triple: the first three elements are replaced (a shorter row grows to three).
SetFirst3(row, triple) == triple \o SubSeq(row, 4, Len(row))

\* FixCoords leaving the rows as they were read.
FixCoords_Kept(rows, N) ==
    IF Len(rows) < Cube(N) THEN [err |-> "IndexError", val |-> rows]
    ELSE [err |-> "none", val |-> rows]

\* Lines 47-55: clutmax and the coordinate fix.  The n-th triple visited is
\* written to row n; a missing row raises IndexError, and clutmax = 0 raises
\* ZeroDivisionError at the first division.
FixCoords(rows, N) ==
    LET visits == LoopB(0, N)
        clutmax == N - 1
    IN  IF visits = <<>> THEN [err |-> "none", val |-> rows]
        ELSE IF Len(rows) = 0 THEN [err |-> "IndexError", val |-> rows]
        ELSE IF clutmax = 0 THEN [err |-> "ZeroDivisionError", val |-> rows]
        ELSE IF Len(rows) < Len(visits) THEN [err |-> "IndexError", val |-> rows]
        ELSE [err |-> "none",
              val |-> [n \in 1..Len(rows) |->
                         IF n <= Len(visits)
                         THEN SetFirst3(rows[n], [c \in 1..3 |-> Rat(visits[n][c], clutmax)])
                         ELSE rows[n]]]

\* Python's list comparison r < s: lexicographic, a proper prefix is smaller.
RowLess(r, s) ==
    \E k \in 1..(Len(r) + 1) :
        /\ k <= Len(s)
        /\ \A j \in 1..(k - 1) : r[j] = s[j]
        /\ (k = Len(r) + 1 \/ RatLess(r[k], s[k]))

\* SortRows without the sort.
SortRows_Omitted(rows) == rows

\* Line 59: eecolor_3dlut_data.sort(), a stable ascending sort: row k goes
\* behind every smaller row and behind every equal row that came before it.
SortRows(rows) ==
    LET n == Len(rows)
        place == {<<Cardinality({j \in 1..n : RowLess(rows[j], rows[k])
                                               \/ (j <= k /\ ~RowLess(rows[k], rows[j]))}), k>>
                  : k \in 1..n}
    IN  [p \in 1..n |-> rows[(CHOOSE pk \in place : pk[1] = p)[2]]]

\* ClutValues taking the first three columns.
ClutValues_First3(row) ==
    [c \in 1..(IF Len(row) >= 3 THEN 3 ELSE Len(row)) |-> Rat(row[c][1] * 65535, row[c][2])]

\* Line 80: [v * 65535 for v in row[3:]]
ClutValues(row) ==
    [c \in 1..(IF Len(row) > 3 THEN Len(row) - 3 ELSE 0) |->
        Rat(row[c + 3][1] * 65535, row[c + 3][2])]

\* Lines 74-82: N*N blocks of N entries, the rows taken in their sorted order.
\* The cLUT filled with the position in the block as the slowest index.
FillClut_Transposed(rows, N) ==
    [blk \in 1..(N * N) |-> [c \in 1..N |-> ClutValues(rows[(c - 1) * N * N + blk])]]

FillClut(rows, N) ==
    [blk \in 1..(N * N) |-> [c \in 1..N |-> ClutValues(rows[(blk - 1) * N + c])]]

\* Lines 63-72: the device link profile, its cLUT still empty.
NewLink == [profileClass |-> "link", inputChannels |-> 3, outputChannels |-> 3,
            clut |-> <<>>]

NoLink == [profileClass |-> "none", inputChannels |-> 0, outputChannels |-> 0,
           clut |-> <<>>]

\* Lines 46-82 at once: the cLUT eecolor_to_icc_devicelink builds from the
\* lines of a file, or the error it raises.
ClutOf(lines) ==
    LET rd == ReadRows(lines)
        N == ClutResOf(Len(rd.val))
        fx == FixCoords(rd.val, N)
    IN  IF rd.err # "none" THEN [err |-> rd.err, val |-> <<>>]
        ELSE IF fx.err # "none" THEN [err |-> fx.err, val |-> <<>>]
        ELSE [err |-> "none", val |-> FillClut(SortRows(fx.val), N)]

----------------------------------------------------------------------------
(* Command lines and input files of the model *)

TxtArgs == {"a.txt", "b.txt", "m.txt"}         \* arguments ending in .txt
IccArgs == {"l.icc"}                           \* arguments ending in .icc or .icm
HdrArgs == {"--hdr=1", "--hdr=2"}
ColorspaceArgs == {"--colorspace=0.64,0.33"}
OtherArgs == {"--unity", "--help", "--append-linear-cal", "--convert-video-rgb-to-clut65"}
Args == TxtArgs \cup IccArgs \cup HdrArgs \cup ColorspaceArgs \cup OtherArgs

\* The command lines of the model are made of the arguments of one of two
\* families: files of every kind with a few options, and few files with the
\* options that come in several values or apply to all files.
BatchArgs == TxtArgs \cup IccArgs \cup {"--hdr=1"} \cup ColorspaceArgs \cup {"--unity", "--help"}
FlagArgs == {"a.txt", "l.icc"} \cup HdrArgs
                \cup {"--append-linear-cal", "--convert-video-rgb-to-clut65"}

Range(s) == {s[k] : k \in 1..Len(s)}

\* Lines 31-32: os.path.splitext(name)[0] + ".icc"
IccNameOf(name) ==
    CASE name = "a.txt" -> "a.icc"
      [] name = "b.txt" -> "b.icc"
      [] name = "m.txt" -> "m.icc"
      [] OTHER -> "l.icc"

IccNames == {IccNameOf(n) : n \in TxtArgs}

\* Column c of the two rows the freely chosen files are made of.
RowTokA(c) ==
    CASE c \in 1..3 -> Tok(0, 0)
      [] c = 4 -> Tok(-5, 1)
      [] c = 5 -> Tok(5, 1)
      [] c = 6 -> Tok(10, 1)
      [] OTHER -> Tok(25, 2)

RowTokB(c) ==
    CASE c = 1 -> Tok(1, 0)
      [] c = 2 -> Tok(5, 1)
      [] c = 3 -> Tok(0, 0)
      [] c = 4 -> Tok(0, 0)
      [] c = 5 -> Tok(15, 1)
      [] c = 6 -> Tok(1, 0)
      [] OTHER -> Tok(75, 2)

RowA(ncols) == [c \in 1..ncols |-> RowTokA(c)]
RowB(ncols) == [c \in 1..ncols |-> RowTokB(c)]

\* Files of up to MaxRows rows of MaxCols columns, each row one of the two.
FreeFiles == UNION {[1..n -> {RowA(MaxCols), RowB(MaxCols)}] : n \in 0..MaxRows}

\* Files of up to MaxRows rows that carry three columns only.
ThreeColumnFiles == {[k \in 1..n |-> RowB(3)] : n \in 0..MaxRows}

\* Files with a comment line in front and a blank line at the end.
CommentedFiles ==
    {<<CommentLine>> \o [k \in 1..n |-> RowA(MaxCols)] \o <<BlankLine>> : n \in 0..MaxRows}

\* A file of N^3 six-column rows whose outputs tell the rows apart.
TaggedFile(N) ==
    [n \in 1..Cube(N) |-> <<Tok(0, 0), Tok(0, 0), Tok(0, 0), Tok(n - 1, 2), Tok(5, 1), Tok(Cube(N) - n, 2)>>]

\* A file with a token that is no number.
JunkFile == <<RowA(MaxCols), <<Tok(0, 0), JunkTok>>>>

GridFiles == FreeFiles \cup ThreeColumnFiles \cup CommentedFiles \cup {TaggedFile(N) : N \in 2..MaxRes} \cup {JunkFile}

\* The files of the batch runs: a.txt holds a 2^3 grid, b.txt is one row short.
BatchFs == [n \in {"a.txt", "b.txt"} |->
              IF n = "a.txt" THEN TaggedFile(2) ELSE SubSeq(TaggedFile(2), 1, 7)]

\* os.path.isfile(arg)
IsFile(name) == name \in DOMAIN fs \/ name \in IccArgs

\* --unity counted only if it stands at or before the argument the loop is at.
Unity_SoFar == \E k \in 1..Len(argv) : k <= i /\ argv[k] = "--unity"

Unity == "--unity" \in Range(argv)

\* An optional value of __main__: <<>> is None, <<v>> is the value v.
None == <<>>
Some(v) == <<v>>

\* Line 133: the text after "=", split at the commas, each part through float().
ColorspaceTokens(arg) ==
    CASE arg = "--colorspace=0.64,0.33" -> <<Tok(64, 2), Tok(33, 2)>>
      [] OTHER -> <<>>

ColorspaceOf(arg) ==
    LET toks == ColorspaceTokens(arg)
    IN  [k \in 1..Len(toks) |-> ParseFloat(toks[k])]

\* Line 135: the text after "=" through int().
HdrOf(arg) ==
    CASE arg = "--hdr=1" -> 1
      [] arg = "--hdr=2" -> 2
      [] OTHER -> 0

\* No call of fn for this argument (yet).
NoCall == [fn |-> "none"]

\* The call with the --hdr= value given last on the whole command line.
CallArgs_LastGiven(k) ==
    LET at == {j \in 1..Len(argv) : argv[j] \in HdrArgs}
    IN  [fn |-> fn,
         arg |-> argv[k],
         unity |-> Unity,
         colorspace |-> colorspace,
         hdr |-> IF at = {} THEN None
                 ELSE Some(HdrOf(argv[CHOOSE j \in at : \A h \in at : h <= j])),
         convert_video_rgb_to_clut65 |-> "--convert-video-rgb-to-clut65" \in Range(argv),
         append_linear_cal |-> "--append-linear-cal" \in Range(argv)]

\* Lines 147-155: the arguments fn is called with.
CallArgs(k) ==
    [fn |-> fn,
     arg |-> argv[k],
     unity |-> Unity,
     colorspace |-> colorspace,
     hdr |-> hdr,
     convert_video_rgb_to_clut65 |-> "--convert-video-rgb-to-clut65" \in Range(argv),
     append_linear_cal |-> "--append-linear-cal" \in Range(argv)]

\* bool(result) as taken by: not result
Truthy(r) == r \notin {"None", "False"}

----------------------------------------------------------------------------
(* Initial states *)

InitRest ==
    /\ pc = "start"
    /\ i = 0
    /\ fn = "none"
    /\ result = "None"
    /\ colorspace = None
    /\ hdr = None
    /\ sigbreak = FALSE
    /\ eecolor_3dlut_data = <<>>
    /\ clutres = 0
    /\ link = NoLink
    /\ icc_filename = "none"
    /\ written = [n \in IccNames |-> NoLink]
    /\ luts = {}
    /\ chunk = 0
    /\ exc = "none"
    /\ exitStatus = -1
    /\ outcome = [k \in 1..Len(argv) |-> "none"]
    /\ sigAt = {}
    /\ calls = [k \in 1..Len(argv) |-> NoCall]

\* The command lines of up to MaxArgs arguments, none given twice.
CommandLinesOver(args) ==
    {s \in UNION {[1..n -> args] : n \in 0..MaxArgs} :
        \A j, k \in 1..Len(s) : j # k => s[j] # s[k]}

CommandLines == CommandLinesOver(BatchArgs) \cup CommandLinesOver(FlagArgs)

\* Any of the command lines over the two batch files.
InitBatch ==
    /\ argv \in CommandLines
    /\ fs = BatchFs
    /\ InitRest

\* One input file a.txt with any of the grid files as its content.
InitGrid ==
    /\ argv = <<"a.txt">>
    /\ fs \in {[BatchFs EXCEPT !["a.txt"] = f] : f \in GridFiles}
    /\ InitRest

Init == InitBatch \/ InitGrid

----------------------------------------------------------------------------
(* __main__ *)

mainVars == <<fn, result, colorspace, hdr>>
convVars == <<eecolor_3dlut_data, clutres, link>>
histVars == <<outcome, sigAt>>
callVars == <<calls, icc_filename>>

\* Lines 121-125: arguments given and no --help: the loop starts.
Begin ==
    /\ pc = "start"
    /\ argv # <<>> /\ "--help" \notin Range(argv)
    /\ pc' = "loop"
    /\ i' = 1
    /\ colorspace' = None
    /\ hdr' = None
    /\ UNCHANGED <<argv, fs, fn, result, sigbreak, convVars, written, luts, chunk, exc,
                   exitStatus, histVars, callVars>>

\* Lines 161-187: the usage text.
Usage ==
    /\ pc = "start"
    /\ argv = <<>> \/ "--help" \in Range(argv)
    /\ pc' = "pause"
    /\ UNCHANGED <<argv, fs, i, mainVars, sigbreak, convVars, written, luts, chunk, exc,
                   exitStatus, histVars, callVars>>

\* Lines 131-136: an argument that names no input file.
Option ==
    /\ pc = "loop"
    /\ i <= Len(argv)
    /\ argv[i] \notin TxtArgs \cup IccArgs
    /\ colorspace' = IF argv[i] \in ColorspaceArgs
                      THEN Some(ColorspaceOf(argv[i])) ELSE colorspace
    /\ hdr' = IF argv[i] \in HdrArgs THEN Some(HdrOf(argv[i])) ELSE hdr
    /\ i' = i + 1
    /\ UNCHANGED <<argv, fs, pc, fn, result, sigbreak, convVars, written, luts, chunk, exc,
                   exitStatus, histVars, callVars>>

\* Lines 127-130: the function for this kind of file.
FnOf(a) == IF a \in TxtArgs THEN "eecolor_to_madvr" ELSE "icc_device_link_to_madvr"

\* The missing file is reported and the loop goes on with the next argument.
FileNotFound_Continues ==
    /\ pc = "loop"
    /\ i <= Len(argv)
    /\ argv[i] \in TxtArgs \cup IccArgs
    /\ ~IsFile(argv[i]) /\ ~Unity
    /\ fn' = FnOf(argv[i])
    /\ result' = "False"
    /\ outcome' = [outcome EXCEPT ![i] = "notfound"]
    /\ i' = i + 1
    /\ UNCHANGED <<argv, fs, pc, colorspace, hdr, sigbreak, convVars, written, luts, chunk,
                   exc, exitStatus, sigAt, callVars>>

\* Lines 139-142: the file does not exist and --unity is not given: break.
FileNotFound ==
    /\ pc = "loop"
    /\ i <= Len(argv)
    /\ argv[i] \in TxtArgs \cup IccArgs
    /\ ~IsFile(argv[i]) /\ ~Unity
    /\ fn' = FnOf(argv[i])
    /\ result' = "False"
    /\ outcome' = [outcome EXCEPT ![i] = "notfound"]
    /\ pc' = "pause"
    /\ UNCHANGED <<argv, fs, i, colorspace, hdr, sigbreak, convVars, written, luts, chunk,
                   exc, exitStatus, sigAt, callVars>>

\* Lines 127-130, 137-147: an input file that is there (or --unity): fn is called.
SelectFile ==
    /\ pc = "loop"
    /\ i <= Len(argv)
    /\ argv[i] \in TxtArgs \cup IccArgs
    /\ IsFile(argv[i]) \/ Unity
    /\ fn' = FnOf(argv[i])
    /\ pc' = "call"
    /\ UNCHANGED <<argv, fs, i, result, colorspace, hdr, sigbreak, convVars, written, luts,
                   chunk, exc, exitStatus, histVars, callVars>>

\* Lines 126, 159-160: the arguments are used up.
LoopEnd ==
    /\ pc = "loop"
    /\ i > Len(argv)
    /\ pc' = "pause"
    /\ UNCHANGED <<argv, fs, i, mainVars, sigbreak, convVars, written, luts, chunk, exc,
                   exitStatus, histVars, callVars>>

\* An exception leaves the function called at line 147.
Raise(e) ==
    /\ exc' = e
    /\ pc' = "except"
    /\ eecolor_3dlut_data' = <<>>
    /\ clutres' = 0
    /\ link' = NoLink
    /\ chunk' = 0

\* Lines 147-155, 106, 29-34: the call; eecolor_to_madvr enters
\* eecolor_to_icc_devicelink, which names the device link and, with unity,
\* skips reading and building and returns that name (line 87).
Call ==
    /\ pc = "call"
    /\ calls' = [calls EXCEPT ![i] = CallArgs(i)]
    /\ icc_filename' = IF fn = "eecolor_to_madvr" THEN IccNameOf(argv[i]) ELSE argv[i]
    /\ pc' = IF fn = "eecolor_to_madvr" /\ ~Unity THEN "read" ELSE "madvr"
    /\ chunk' = 0
    /\ UNCHANGED <<argv, fs, i, mainVars, sigbreak, convVars, written, luts, exc,
                   exitStatus, outcome, sigAt>>

\* Lines 37-46: the file is read and the grid resolution computed.
Read ==
    /\ pc = "read"
    /\ LET rd == ReadRows(fs[argv[i]])
       IN  IF rd.err # "none"
           THEN Raise(rd.err)
           ELSE /\ eecolor_3dlut_data' = rd.val
                /\ clutres' = ClutResOf(Len(rd.val))
                /\ pc' = "fix"
                /\ UNCHANGED <<link, chunk, exc>>
    /\ UNCHANGED <<argv, fs, i, mainVars, sigbreak, written, luts, exitStatus, histVars, callVars>>

\* Lines 47-55: the coordinates are rebuilt.
Fix ==
    /\ pc = "fix"
    /\ LET fx == FixCoords(eecolor_3dlut_data, clutres)
       IN  IF fx.err # "none"
           THEN Raise(fx.err)
           ELSE /\ eecolor_3dlut_data' = fx.val
                /\ pc' = "sort"
                /\ UNCHANGED <<clutres, link, chunk, exc>>
    /\ UNCHANGED <<argv, fs, i, mainVars, sigbreak, written, luts, exitStatus, histVars, callVars>>

\* Lines 57-59: the rows are sorted.
Sort ==
    /\ pc = "sort"
    /\ eecolor_3dlut_data' = SortRows(eecolor_3dlut_data)
    /\ pc' = "build"
    /\ UNCHANGED <<argv, fs, i, mainVars, sigbreak, clutres, link, written, luts, chunk,
                   exc, exitStatus, histVars, callVars>>

\* The profile is created and written at once, before its cLUT is filled.
Build_WritesFirst ==
    /\ pc = "build"
    /\ link' = NewLink
    /\ written' = [written EXCEPT ![IccNameOf(argv[i])] = NewLink]
    /\ pc' = "fill"
    /\ UNCHANGED <<argv, fs, i, mainVars, sigbreak, eecolor_3dlut_data, clutres, luts, chunk,
                   exc, exitStatus, histVars, callVars>>

\* Lines 61-72: the profile is created.
Build ==
    /\ pc = "build"
    /\ link' = NewLink
    /\ pc' = "fill"
    /\ UNCHANGED <<argv, fs, i, mainVars, sigbreak, eecolor_3dlut_data, clutres, written, luts, chunk,
                   exc, exitStatus, histVars, callVars>>

\* Lines 74-82: the cLUT is filled.
Fill ==
    /\ pc = "fill"
    /\ link' = [link EXCEPT !.clut = FillClut(eecolor_3dlut_data, clutres)]
    /\ pc' = "write"
    /\ UNCHANGED <<argv, fs, i, mainVars, sigbreak, eecolor_3dlut_data, clutres, written, luts, chunk,
                   exc, exitStatus, histVars, callVars>>

\* Lines 84-87, 106-108: the device link is written, eecolor_to_icc_devicelink
\* returns and icc_device_link_to_madvr is entered.
Write ==
    /\ pc = "write"
    /\ written' = [written EXCEPT ![IccNameOf(argv[i])] = link]
    /\ eecolor_3dlut_data' = <<>>
    /\ clutres' = 0
    /\ link' = NoLink
    /\ pc' = "madvr"
    /\ UNCHANGED <<argv, fs, i, mainVars, sigbreak, luts, chunk, exc, exitStatus, histVars, callVars>>

\* icc_device_link_to_madvr, one chunk of the resampling: the abort signal is
\* looked at between chunks.
MadvrChunk ==
    /\ pc = "madvr"
    /\ chunk < NumChunks
    /\ IF sigbreak
       THEN Raise("AbortedError")
       ELSE /\ chunk' = chunk + 1
            /\ UNCHANGED <<pc, exc, convVars>>
    /\ UNCHANGED <<argv, fs, i, mainVars, sigbreak, written, luts, exitStatus, histVars, callVars>>

\* icc_device_link_to_madvr fails before resampling (the profile cannot be decoded).
MadvrFail ==
    /\ pc = "madvr"
    /\ chunk = 0
    /\ Raise("FormatError")
    /\ UNCHANGED <<argv, fs, i, mainVars, sigbreak, written, luts, exitStatus, histVars, callVars>>

\* The value icc_device_link_to_madvr returns when it has written the 3D LUT.
MadvrResult == "True"

\* Lines 108-116, 147: the 3D LUT is written and the result assigned.
MadvrDone ==
    /\ pc = "madvr"
    /\ chunk = NumChunks
    /\ luts' = luts \cup {argv[i]}
    /\ result' = MadvrResult
    /\ outcome' = [outcome EXCEPT ![i] = "ok"]
    /\ chunk' = 0
    /\ i' = i + 1
    /\ pc' = "loop"
    /\ UNCHANGED <<argv, fs, fn, colorspace, hdr, sigbreak, convVars, written, exc,
                   exitStatus, sigAt, callVars>>

\* Lines 156-158: the exception is caught and kept as the result.
Except ==
    /\ pc = "except"
    /\ result' = exc
    /\ outcome' = [outcome EXCEPT ![i] = exc]
    /\ exc' = "none"
    /\ i' = i + 1
    /\ pc' = "loop"
    /\ UNCHANGED <<argv, fs, fn, colorspace, hdr, sigbreak, convVars, written, luts, chunk,
                   exitStatus, sigAt, callVars>>

\* Line 190: int(not result)
ExitStatusOf(r) == IF Truthy(r) THEN 0 ELSE 1

\* Lines 188-190: the prompt, if any, and sys.exit.
Exit ==
    /\ pc = "pause"
    /\ exitStatus' = ExitStatusOf(result)
    /\ pc' = "exit"
    /\ UNCHANGED <<argv, fs, i, mainVars, sigbreak, convVars, written, luts, chunk, exc,
                   histVars, callVars>>

\* Lines 21-26: SIGBREAK (SIGINT where there is none) arrives and the flag is
\* set; a further signal finds it set and changes nothing.
SigbreakHandler ==
    /\ pc # "exit"
    /\ ~sigbreak
    /\ sigbreak' = TRUE
    /\ sigAt' = sigAt \cup {i}
    /\ UNCHANGED <<argv, fs, pc, i, mainVars, convVars, written, luts, chunk, exc,
                   exitStatus, outcome, callVars>>

Next ==
    \/ Begin
    \/ Usage
    \/ Option
    \/ FileNotFound
    \/ SelectFile
    \/ LoopEnd
    \/ Call
    \/ Read
    \/ Fix
    \/ Sort
    \/ Build
    \/ Fill
    \/ Write
    \/ MadvrChunk
    \/ MadvrFail
    \/ MadvrDone
    \/ Except
    \/ Exit
    \/ SigbreakHandler

Spec == Init /\ [][Next]_vars

----------------------------------------------------------------------------
(* Properties *)

\* The rows of floats of the file being converted, as read.
SourceRows == ReadRows(fs[argv[i]]).val

\* The positions of eecolor_to_icc_devicelink behind the coordinate fix.
PastFix == {"sort", "build", "fill", "write"}

IsCubeCount(count) == Cube(ClutResOf(count)) = count

\* The input being converted has exactly clutres^3 rows, clutres >= 2.
ExactGrid == clutres >= 2 /\ Len(SourceRows) = Cube(clutres)

\* C1 (as claimed): an input whose row count is not a perfect cube never gets
\* past the coordinate fix: wherever the reader goes on, count = clutres^3.
C1_NonCubeFails == pc \in PastFix => Cube(clutres) = Len(eecolor_3dlut_data)

\* C2 (as claimed): a device link file is on disk only for inputs whose row
\* count is a perfect cube.
C2_NonCubeNotWritten ==
    \A n \in DOMAIN fs :
        written[IccNameOf(n)] # NoLink => IsCubeCount(Len(ReadRows(fs[n]).val))

\* C3: for an input of exactly N^3 rows (N >= 2), the row at source position n
\* gets (R,G,B) = ((n div N) mod N, n mod N, n div N^2) / (N-1); every
\* coordinate lies in [0,1] and every lattice point belongs to exactly one row.
C3_CoordOfRow ==
    (pc = "sort" /\ ExactGrid) =>
        LET N == clutres
        IN  /\ \A n \in 0..(Cube(N) - 1) :
                  /\ eecolor_3dlut_data[n + 1][1] = Rat((n \div N) % N, N - 1)
                  /\ eecolor_3dlut_data[n + 1][2] = Rat(n % N, N - 1)
                  /\ eecolor_3dlut_data[n + 1][3] = Rat(n \div (N * N), N - 1)
                  /\ \A c \in 1..3 : 0 <= eecolor_3dlut_data[n + 1][c][1] /\ eecolor_3dlut_data[n + 1][c][1] <= eecolor_3dlut_data[n + 1][c][2]
            /\ \A r, g, b \in 0..(N - 1) :
                  Cardinality({n \in 1..Cube(N) :
                      SubSeq(eecolor_3dlut_data[n], 1, 3) = <<Rat(r, N - 1), Rat(g, N - 1), Rat(b, N - 1)>>}) = 1

C3_Witness == pc = "sort" /\ ExactGrid /\ clutres = 3 /\ eecolor_3dlut_data[2][2] = <<1, 2>>

\* The number of times x occurs in the sequence s.
Occurrences(s, x) == Cardinality({k \in 1..Len(s) : s[k] = x})

IsPermutationOf(s, t) ==
    /\ Len(s) = Len(t)
    /\ \A k \in 1..Len(s) : Occurrences(s, s[k]) = Occurrences(t, s[k])

\* C4 (as claimed): after the sort of an N^3-row input the key (B,G,R) is in
\* lexicographic order, its rightmost component R varying fastest.
C4_SortedOnBGR ==
    (pc = "build" /\ ExactGrid) =>
        LET N == clutres
        IN  \A p \in 0..(Cube(N) - 1) :
                SubSeq(eecolor_3dlut_data[p + 1], 1, 3) =
                    <<Rat(p % N, N - 1), Rat((p \div N) % N, N - 1), Rat(p \div (N * N), N - 1)>>

\* C4 (amended): the sort leaves the rows of the coordinate fix in ascending
\* order of the whole row, compared component by component from (R,G,B) on;
\* for an input of exactly N^3 rows (N >= 2) R varies slowest and B fastest,
\* whatever the output values are.
C4_SortedOnWholeRow ==
    pc = "build" =>
        /\ \A p \in 1..(Len(eecolor_3dlut_data) - 1) : ~RowLess(eecolor_3dlut_data[p + 1], eecolor_3dlut_data[p])
        /\ IsPermutationOf(eecolor_3dlut_data, FixCoords(SourceRows, clutres).val)
        /\ ExactGrid =>
              LET N == clutres
              IN  \A p \in 0..(Cube(N) - 1) :
                      SubSeq(eecolor_3dlut_data[p + 1], 1, 3) =
                          <<Rat(p \div (N * N), N - 1), Rat((p \div N) % N, N - 1), Rat(p % N, N - 1)>>

C4_Witness == pc = "build" /\ ExactGrid /\ clutres = 3 /\ SubSeq(eecolor_3dlut_data[2], 1, 3) = <<<<0, 1>>, <<0, 1>>, <<1, 2>>>>

\* The lines of a file with lines j and k exchanged.
SwapLines(lines, j, k) ==
    [n \in 1..Len(lines) |->
        IF n = j THEN lines[k] ELSE IF n = k THEN lines[j] ELSE lines[n]]

\* The lines of a file, the first three columns of data line n replaced by
\* the tokens t[n][1..3].
WithCoords(lines, t) ==
    [n \in 1..Len(lines) |->
        IF IsSkipped(lines[n]) THEN lines[n]
        ELSE t[n] \o SubSeq(lines[n], 4, Len(lines[n]))]

\* Two other fillings of the coordinate columns: all equal, and counting down.
AltCoords(lines) ==
    {[n \in 1..Len(lines) |-> <<Tok(5, 1), Tok(5, 1), Tok(5, 1)>>],
     [n \in 1..Len(lines) |-> <<Tok(Len(lines) - n, 0), Tok(0, 0), Tok(n, 1)>>]}

\* C5 (as claimed): an input with the same rows in another order gives the
\* same canonical grid (here: any two lines exchanged).
C5_PermutedInputSameGrid ==
    pc = "write" =>
        LET lines == fs[argv[i]]
        IN  \A j, k \in 1..Len(lines) :
                ClutOf(SwapLines(lines, j, k)) = [err |-> "none", val |-> link.clut]

\* C5 (amended): two inputs of exactly N^3 rows (N >= 2) that agree, position
\* by position, in every column behind the third give the same canonical
\* grid, whatever their first three columns hold.
C5_CoordColumnsIgnored ==
    (pc = "write" /\ ExactGrid) =>
        LET lines == fs[argv[i]]
        IN  \A t \in AltCoords(lines) :
                ClutOf(WithCoords(lines, t)) = [err |-> "none", val |-> link.clut]

C5_Witness ==
    /\ pc = "write" /\ ExactGrid
    /\ \E j, k \in 1..Len(SourceRows) : SourceRows[j] # SourceRows[k]
    /\ link.clut # <<>>

\* C6 (as claimed): every value of the cLUT built is an integer in 0..65535.
C6_ClutValuesQuantized ==
    pc = "write" =>
        \A blk \in 1..Len(link.clut) : \A c \in 1..Len(link.clut[blk]) :
            \A k \in 1..Len(link.clut[blk][c]) :
                LET v == link.clut[blk][c][k]
                IN  v[2] = 1 /\ 0 <= v[1] /\ v[1] <= 65535

\* The columns of a row from position `from` to `to`, each times 65535.
Scaled16(row, from, to) ==
    [c \in 1..(IF to >= from THEN to - from + 1 ELSE 0) |->
        Rat(65535 * row[from + c - 1][1], row[from + c - 1][2])]

ThreeColumnInput ==
    LET src == SourceRows
    IN  src # <<>> /\ \A n \in 1..Len(src) : Len(src[n]) = 3

C8_ClutShape ==
    pc = "write" =>
        /\ Len(link.clut) = clutres * clutres
        /\ \A blk \in 1..Len(link.clut) :
              /\ Len(link.clut[blk]) = clutres
              /\ \A c \in 1..Len(link.clut[blk]) : Len(link.clut[blk][c]) = link.outputChannels

\* C9 (as claimed): the exit status is 0 only if some input file was
\* processed and every one processed was converted.
C9_ExitStatus ==
    (pc = "exit" /\ exitStatus = 0) =>
        /\ \E k \in 1..Len(argv) : outcome[k] = "ok"
        /\ \A k \in 1..Len(argv) : outcome[k] \in {"none", "ok"}

\* An interrupt arrived while an earlier input file was being processed, and
\* none since the loop came to the current argument.
InterruptedEarlier ==
    /\ i \notin sigAt
    /\ \E j \in sigAt : 1 <= j /\ j < i /\ argv[j] \in TxtArgs \cup IccArgs

\* C10 (as claimed): an interrupt aborts only the file being processed when it
\* arrives: for a later file the flag set by sigbreak_handler is no longer in
\* effect when the file is converted, and the file is not aborted.
C10_InterruptCurrentOnly ==
    /\ (pc = "call" /\ InterruptedEarlier) => ~sigbreak
    /\ \A k \in 1..Len(argv) :
          (outcome[k] = "AbortedError" /\ \E j \in sigAt : 1 <= j /\ j < k) => k \in sigAt

\* The positions of eecolor_to_icc_devicelink before the write of line 85.
BeforeWrite == {"read", "fix", "sort", "build", "fill"}

\* The profile in memory has all its clutres^3 cLUT entries.
ClutComplete ==
    /\ link.profileClass = "link"
    /\ Len(link.clut) = clutres * clutres
    /\ \A blk \in 1..Len(link.clut) : Len(link.clut[blk]) = clutres

\* C11: the device link file is written in one step only, the last of
\* eecolor_to_icc_devicelink, when the profile in memory has all its clutres^3
\* cLUT entries, and what is written is that profile; a conversion that fails
\* before the write leaves its device link file as it was, not created.
C11_WriteIsLast ==
    [][ /\ written' # written =>
              /\ pc = "write" /\ pc' = "madvr"
              /\ ClutComplete
              /\ written' = [written EXCEPT ![IccNameOf(argv[i])] = link]
        /\ (pc \in BeforeWrite /\ pc' = "except") =>
              /\ written' = written
              /\ written[IccNameOf(argv[i])] = NoLink ]_vars

\* The device link of a 3x3x3 grid has just been written.
C11_Witness ==
    /\ pc = "madvr" /\ chunk = 0
    /\ fn = "eecolor_to_madvr"
    /\ written[IccNameOf(argv[i])].profileClass = "link"
    /\ Len(written[IccNameOf(argv[i])].clut) = 9

\* C13: for an input of exactly N^3 rows, N >= 2, the sorted rows have B as
\* the fastest index, then G, and R as the slowest, and the cLUT entry of
\* block r*N + g, position b, is made from source row n = b*N^2 + r*N + g;
\* the rows and the entries correspond one to one.
C13_EntryOfSourceRow ==
    LET N == clutres
    IN  /\ (pc = "build" /\ ExactGrid) =>
              \A r, g, b \in 0..(N - 1) :
                  SubSeq(eecolor_3dlut_data[r * N * N + g * N + b + 1], 1, 3)
                      = <<Rat(r, N - 1), Rat(g, N - 1), Rat(b, N - 1)>>
        /\ (pc = "write" /\ ExactGrid) =>
              LET rows == SourceRows
              IN  /\ \A r, g, b \in 0..(N - 1) :
                        LET row == rows[b * N * N + r * N + g + 1]
                        IN  link.clut[r * N + g + 1][b + 1] = Scaled16(row, 4, Len(row))
                  /\ \A n \in 0..(Cube(N) - 1) :
                        Cardinality({rgb \in (0..(N - 1)) \X (0..(N - 1)) \X (0..(N - 1)) :
                            rgb[3] * N * N + rgb[1] * N + rgb[2] = n}) = 1

\* The cLUT of a 3x3x3 grid whose rows all differ has been filled.
C13_Witness ==
    /\ pc = "write" /\ ExactGrid /\ clutres = 3
    /\ \A j, k \in 1..Len(SourceRows) : j # k => SourceRows[j] # SourceRows[k]
    /\ link.clut[1][1] # link.clut[1][2]

\* --unity stands somewhere on the command line.
UnityGiven == \E k \in 1..Len(argv) : argv[k] = "--unity"

\* The name of a .txt input with its extension replaced by .icc.
DeviceLinkNames == {<<"a.txt", "a.icc">>, <<"b.txt", "b.icc">>, <<"m.txt", "m.icc">>}

\* C14: with --unity anywhere on the command line, eecolor_to_icc_devicelink
\* neither reads the input nor builds or writes a device link and still hands
\* on the input's name with the extension replaced by .icc; no input file is
\* reported as not found, and the loop goes through all the arguments.
C14_UnitySkipsAll ==
    UnityGiven =>
        /\ pc \notin BeforeWrite \cup {"write"}
        /\ eecolor_3dlut_data = <<>> /\ link = NoLink
        /\ \A n \in DOMAIN written : written[n] = NoLink
        /\ (pc = "madvr" /\ argv[i] \in TxtArgs) => <<argv[i], icc_filename>> \in DeviceLinkNames
        /\ \A k \in 1..Len(argv) : outcome[k] # "notfound"
        /\ (pc \in {"pause", "exit"} /\ "--help" \notin Range(argv)) =>
              /\ i = Len(argv) + 1
              /\ \A k \in 1..Len(argv) :
                    argv[k] \in TxtArgs \cup IccArgs => outcome[k] \notin {"none", "notfound"}

\* With --unity after it on the command line, the input file that does not
\* exist has been handed on to icc_device_link_to_madvr under its .icc name.
C14_Witness ==
    /\ pc = "madvr"
    /\ argv[i] = "m.txt" /\ "m.txt" \notin DOMAIN fs
    /\ \E k \in (i + 1)..Len(argv) : argv[k] = "--unity"
    /\ icc_filename = "m.icc"

\* The value an option argument stands for.
OptionValues ==
    {<<"--hdr=1", 1>>, <<"--hdr=2", 2>>,
     <<"--colorspace=0.64,0.33", <<(<<16, 25>>), (<<33, 100>>)>> >>}

\* The value in effect at argument k for the options named in opts: that of
\* the last of them left of k, none (<<>>) if there is no such option.
InEffectAt(k, opts) ==
    LET at == {j \in 1..(k - 1) : argv[j] \in opts}
    IN  IF at = {} THEN <<>>
        ELSE LET last == CHOOSE j \in at : \A h \in at : h <= j
             IN  <<(CHOOSE ov \in OptionValues : ov[1] = argv[last])[2]>>

\* C15: the arguments are handled from left to right: an input file is
\* converted with the --colorspace= and --hdr= values given last before it
\* (none if there is none before it), whatever follows it, while --unity,
\* --convert-video-rgb-to-clut65 and --append-linear-cal hold for every input
\* file wherever they stand.
C15_OptionsInOrder ==
    \A k \in 1..Len(argv) :
        calls[k] # NoCall =>
            /\ k <= i
            /\ \A j \in 1..(k - 1) :
                  argv[j] \in TxtArgs \cup IccArgs => outcome[j] \notin {"none", "notfound"}
            /\ calls[k].arg = argv[k]
            /\ calls[k].hdr = InEffectAt(k, {"--hdr=1", "--hdr=2"})
            /\ calls[k].colorspace = InEffectAt(k, {"--colorspace=0.64,0.33"})
            /\ calls[k].unity = UnityGiven
            /\ calls[k].convert_video_rgb_to_clut65
                  = (\E j \in 1..Len(argv) : argv[j] = "--convert-video-rgb-to-clut65")
            /\ calls[k].append_linear_cal
                  = (\E j \in 1..Len(argv) : argv[j] = "--append-linear-cal")

\* A file followed by --hdr= and --append-linear-cal has been converted
\* without an hdr value and with append_linear_cal; the loop is past --hdr=.
C15_Witness ==
    /\ Len(argv) = 3 /\ i = 3
    /\ argv[1] \in TxtArgs \cup IccArgs
    /\ argv[2] \in HdrArgs /\ argv[3] = "--append-linear-cal"
    /\ calls[1] # NoCall /\ calls[1].hdr = <<>> /\ calls[1].append_linear_cal
    /\ hdr # <<>>

\* The conversion of argument k raised an exception that was caught.
Failed(k) == outcome[k] \notin {"none", "ok", "notfound"}

\* Argument k was reported as a file that is not there.
Missing(k) == outcome[k] = "notfound"

\* C16: an exception raised while one file is converted is caught and the
\* loop goes on with the arguments after it, in order; a missing input file
\* (without --unity) ends the loop at once: no later argument is processed,
\* and nothing the earlier conversions left is changed any more.
C16_ErrorContinuesMissingStops ==
    /\ [](\A k \in 1..Len(argv) :
            /\ Failed(k) =>
                  /\ i > k
                  /\ calls[k] # NoCall
                  /\ (pc \in {"pause", "exit"} /\ ~\E m \in 1..Len(argv) : Missing(m)) =>
                        /\ i = Len(argv) + 1
                        /\ \A j \in (k + 1)..Len(argv) :
                              argv[j] \in TxtArgs \cup IccArgs => outcome[j] # "none"
            /\ outcome[k] # "none" =>
                  \A j \in 1..(k - 1) :
                      argv[j] \in TxtArgs \cup IccArgs => outcome[j] # "none"
            /\ Missing(k) =>
                  /\ pc \in {"pause", "exit"}
                  /\ i = k
                  /\ ~UnityGiven
                  /\ calls[k] = NoCall
                  /\ \A j \in (k + 1)..Len(argv) : outcome[j] = "none" /\ calls[j] = NoCall)
    /\ [][(\E k \in 1..Len(argv) : Missing(k)) =>
              /\ written' = written /\ luts' = luts
              /\ calls' = calls /\ outcome' = outcome
              /\ colorspace' = colorspace /\ hdr' = hdr /\ i' = i]_vars

\* The first file failed, the loop went on to the second, which is missing,
\* and the program ended without looking at the file after it.
C16_Witness ==
    /\ pc = "exit"
    /\ Len(argv) = 3
    /\ Failed(1) /\ Missing(2)
    /\ argv[3] \in TxtArgs \cup IccArgs /\ outcome[3] = "none" /\ calls[3] = NoCall

\* The number of lines of the input file at hand that are neither blank nor
\* comments.
DataRowCount ==
    LET lines == fs[argv[i]]
    IN  Cardinality({k \in 1..Len(lines) : lines[k] # <<>> /\ lines[k][1].k # "#"})

\* C17 (as claimed): an input whose number of data rows (blank lines and
\* comment lines not counted) is a perfect cube N^3, N >= 1, is read without
\* an error of the coordinate loop, and behind the loop there are N^3 rows
\* of resolution N whose coordinates lie in [0, 1].
C17_CubeCountReads ==
    (fn = "eecolor_to_madvr" /\ i \in 1..Len(argv) /\ argv[i] \in DOMAIN fs) =>
        \A N \in 1..MaxRows :
            Cube(N) = DataRowCount =>
                /\ ~(pc = "except" /\ exc \in {"IndexError", "ZeroDivisionError"})
                /\ pc = "sort" =>
                      /\ clutres = N
                      /\ Len(eecolor_3dlut_data) = Cube(N)
                      /\ \A n \in 1..Cube(N) : \A c \in 1..3 :
                            /\ 0 <= eecolor_3dlut_data[n][c][1]
                            /\ eecolor_3dlut_data[n][c][1] <= eecolor_3dlut_data[n][c][2]

====
